---- MODULE Spec2Model ----
(***************************************************************************)
(* A model of sayu's event store (domain/events/store.py and               *)
(* domain/events/memory_store.py), of the collector manager's              *)
(* collect_since_last_commit (domain/collectors/manager.py), of the        *)
(* extractors' pull_since error boundaries and of the git hook entry       *)
(* point (cli/main.py, domain/git/handlers.py, domain/git/hooks.py).       *)
(***************************************************************************)
EXTENDS Integers, Sequences, FiniteSets, TLC

VARIABLES
    impl,        \* which store class the handle is: "sqlite" (EventStore) or "memory" (InMemoryEventStore)
    rows,        \* the events table in rowid order (EventStore) / the events list (InMemoryEventStore)
    out,         \* the last store call made by the store client: its name and outcome
    clk,         \* time.time(), in seconds
    cache,       \* the cache file of the key last_commit_time_<hash of repo_root>
    commits,     \* the repository's commits, HEAD last
    config,      \* config.connectors: which sources are enabled
    pc,          \* where collect_since_last_commit is
    inv,         \* number of collect_since_last_commit invocations started
    now_ms,      \* collect_since_last_commit: now_ms
    start_time,  \* collect_since_last_commit: start_time
    task,        \* per source, the state of its future: "off" (not submitted), "running", "done" (result merged)
    all_events,  \* collect_since_last_commit: all_events
    ret,         \* the value the last completed invocation returned
    err,         \* the exception that left the current invocation, "none" when there is none
    raisedSrc,   \* the sources whose pull_since raised in the current invocation
    prev,        \* the window, sources and return value of the invocation before the current one
    hooks,       \* number of post-commit hook runs
    fails,       \* number of failures (raising pull_since, failing INSERT) injected so far
    px,          \* one extractor's pull_since call: the extractor, SAYU_DEBUG, where the call is, its events list
    hk,          \* one run of a generated hook script: the hook, its arguments, where the run is, exit statuses
    fx,          \* one parser working through the units (lines, rows) of one file
    mx,          \* one conversation record and what its extractor makes of it
    cx,          \* one cache key's file and the processes that get and set it
    gx,          \* one git subprocess and the call that waits for it
    dp,          \* the worker pool of one invocation and the calls made through it
    ss,          \* the Cursor collector of one manager: its session map, its queries
    mf,          \* the commit message file and the handler runs on it
    dq           \* the daemon's event queue, its batch and its loop

storeVars == <<impl, rows, out>>

collectVars == <<clk, cache, commits, config, pc, inv, now_ms, start_time, task,
                 all_events, ret, err, raisedSrc, prev, hooks, fails>>

vars == <<impl, rows, out, clk, cache, commits, config, pc, inv, now_ms, start_time,
          task, all_events, ret, err, raisedSrc, prev, hooks, fails, px, hk, fx, mx, cx, gx,
          dp, ss, mf, dq>>

partVars == <<dp, ss, mf, dq>>

boundaryVars == <<px, hk, fx, mx, cx, gx, dp, ss, mf, dq>>

(***************************************************************************)
(* Bounds of the model.                                                    *)
(***************************************************************************)
MaxId == 3          \* event ids handed to the store by its client are 1..MaxId
MaxTs == 2          \* event timestamps handed to the store by its client are 1..MaxTs
MaxRows == 3        \* the store client never grows the store beyond this many rows
MaxBatch == 2       \* longest batch the store client passes to insert_batch

Repos == {"r1", "r2"}
NoFile == "none"

(***************************************************************************)
(* Event (domain/events/types.py): the columns the queries look at.        *)
(* text stands for the event's content (text and meta).                    *)
(***************************************************************************)
Event(id, ts, source, kind, repo, file, text) ==
    [id |-> id, ts |-> ts, source |-> source, kind |-> kind,
     repo |-> repo, file |-> file, text |-> text]

\* the (repo, file) pairs of the events the store client inserts
ClientPlaces == << <<"r1", NoFile>>, <<"r1", "f1">>, <<"r2", NoFile>> >>

\* the event of id i lies at the same place whenever the client inserts it
PlaceOf(i) == ClientPlaces[((i - 1) % Len(ClientPlaces)) + 1]

ClientEvents ==
    { Event(i, t, "git", "commit", PlaceOf(i)[1], PlaceOf(i)[2], "t") :
        i \in 1..MaxId, t \in 1..MaxTs }

ClientBatches ==
    UNION { [1..n -> ClientEvents] : n \in 1..MaxBatch }

Range(s) == { s[i] : i \in DOMAIN s }

Ids(rs) == { rs[i].id : i \in DOMAIN rs }

Reverse(s) == [i \in 1..Len(s) |-> s[Len(s) + 1 - i]]

(***************************************************************************)
(* Python's sorted(events, key=lambda e: e.ts): stable, ascending.         *)
(***************************************************************************)
InsertByTs(t, x) ==
    LET k == Cardinality({ i \in DOMAIN t : t[i].ts <= x.ts })
    IN  SubSeq(t, 1, k) \o <<x>> \o SubSeq(t, k + 1, Len(t))

RECURSIVE sorted(_)
sorted(s) ==
    IF s = <<>> THEN <<>>
    ELSE InsertByTs(sorted(SubSeq(s, 1, Len(s) - 1)), s[Len(s)])

(***************************************************************************)
(* SQL "ORDER BY ts DESC" over the rows a WHERE clause selected: the       *)
(* index on ts is walked backwards, so rows of equal ts come out in        *)
(* descending rowid order.                                                 *)
(***************************************************************************)
OrderByTsDesc(s) == Reverse(sorted(s))

(***************************************************************************)
(* EventStore (SQLite).  fault is the position of the INSERT statement     *)
(* that the engine refuses for a reason of its own (database locked, disk  *)
(* full, ...), 0 when there is none.                                       *)
(***************************************************************************)
\* INSERT INTO events: id is the PRIMARY KEY, a second row with the id fails
InsertFails(rs, e) == e.id \in Ids(rs)

RECURSIVE InsertRows(_, _, _)
\* the rows after executing the batch's INSERTs up to the first failing one
InsertRows(rs, batch, fault) ==
    IF batch = <<>> THEN rs
    ELSE IF fault = 1 \/ InsertFails(rs, Head(batch)) THEN rs
    ELSE InsertRows(Append(rs, Head(batch)), Tail(batch), fault - 1)

RECURSIVE BatchFails(_, _, _)
BatchFails(rs, batch, fault) ==
    IF batch = <<>> THEN FALSE
    ELSE IF fault = 1 \/ InsertFails(rs, Head(batch)) THEN TRUE
    ELSE BatchFails(Append(rs, Head(batch)), Tail(batch), fault - 1)

\* insert_batch without the rollback: the rows inserted before the failure stay
insert_batch_no_rollback(rs, batch, fault) ==
    [rows |-> InsertRows(rs, batch, fault), raised |-> BatchFails(rs, batch, fault)]

\* BEGIN TRANSACTION; INSERT each; commit; on any exception rollback and raise
insert_batch(rs, batch, fault) ==
    IF BatchFails(rs, batch, fault)
    THEN [rows |-> rs, raised |-> TRUE]
    ELSE [rows |-> InsertRows(rs, batch, fault), raised |-> FALSE]

insert(rs, e, fault) ==
    IF fault = 1 \/ InsertFails(rs, e)
    THEN [rows |-> rs, raised |-> TRUE]
    ELSE [rows |-> Append(rs, e), raised |-> FALSE]

\* WHERE ts >= ? AND ts < ?: the upper bound left out of the range
find_by_time_range_excl(rs, start_ms, end_ms) ==
    LET Test(e) == e.ts >= start_ms /\ e.ts < end_ms
    IN  OrderByTsDesc(SelectSeq(rs, Test))

find_by_time_range(rs, start_ms, end_ms) ==
    LET Test(e) == e.ts >= start_ms /\ e.ts <= end_ms
    IN  OrderByTsDesc(SelectSeq(rs, Test))

find_by_file(rs, file, start_ms, end_ms) ==
    LET Test(e) == e.file = file /\ e.ts >= start_ms /\ e.ts <= end_ms
    IN  OrderByTsDesc(SelectSeq(rs, Test))

find_by_repo(rs, repo, start_ms, end_ms) ==
    LET Test(e) == e.repo = repo /\ e.ts >= start_ms /\ e.ts <= end_ms
    IN  OrderByTsDesc(SelectSeq(rs, Test))

\* Python's Optional[int]
None == [some |-> FALSE, v |-> 0]

Some(v) == [some |-> TRUE, v |-> v]

\* the rows of WHERE repo = ? AND source = 'git' AND kind = 'commit'
CommitRows(rs, repo) ==
    SelectSeq(rs, LAMBDA e : e.repo = repo /\ e.source = "git" /\ e.kind = "commit")

\* EventStore.find_last_commit: ORDER BY ts DESC LIMIT 1, as a sequence of at
\* most one event
find_last_commit(rs, repo) ==
    LET found == OrderByTsDesc(CommitRows(rs, repo))
    IN  IF found = <<>> THEN <<>> ELSE <<Head(found)>>

\* EventStore.get_last_commit_time: the ts column of the same query
get_last_commit_time(rs, repo) ==
    LET found == find_last_commit(rs, repo)
    IN  IF found = <<>> THEN None ELSE Some(found[1].ts)

(***************************************************************************)
(* InMemoryEventStore.                                                     *)
(***************************************************************************)
\* _last_commit_times[repo] after the inserts of rs: insert assigns the ts of
\* every git commit event, so the entry is that of the event appended last
mem_get_last_commit_time(rs, repo) ==
    LET found == CommitRows(rs, repo)
    IN  IF found = <<>> THEN None ELSE Some(found[Len(found)].ts)

mem_insert(rs, e) == [rows |-> Append(rs, e), raised |-> FALSE]

mem_insert_batch(rs, batch) == [rows |-> rs \o batch, raised |-> FALSE]

mem_find_by_time_range(rs, start_ms, end_ms) ==
    LET Test(e) == start_ms <= e.ts /\ e.ts <= end_ms
    IN  sorted(SelectSeq(rs, Test))

mem_find_by_repo(rs, repo, start_ms, end_ms) ==
    LET Test(e) == e.repo = repo /\ start_ms <= e.ts /\ e.ts <= end_ms
    IN  sorted(SelectSeq(rs, Test))

(***************************************************************************)
(* The anchor cache (infra/cache/manager.py).  A cache file is absent or   *)
(* holds {'timestamp': time.time() at the write, 'value': ...}.            *)
(***************************************************************************)
CacheTtl == 60

NoEntry == [present |-> FALSE, timestamp |-> 0, value |-> 0]

\* Python's truth value of an optional int
Truthy(x) == x.some /\ x.v # 0

\* CacheManager.get: the value read and the cache file after the read
CacheGet(c, now, ttl) ==
    IF ~c.present THEN [value |-> None, cache |-> c]
    ELSE IF now - c.timestamp > ttl THEN [value |-> None, cache |-> NoEntry]
    ELSE [value |-> Some(c.value), cache |-> c]

\* CacheManager.set
CacheSet(c, now, value) == [present |-> TRUE, timestamp |-> now, value |-> value]

(***************************************************************************)
(* The sources.  A commit is [hash, at (author time, s), ct (committer     *)
(* time, s), parent (it has one), file (the file its diff against the      *)
(* parent names, NoFile when none)].                                       *)
(***************************************************************************)
repo_root == "r1"

SourceSet == {"git", "cli", "cursor", "claude"}

\* the characters of the paths that occur
Chars(p) ==
    CASE p = "r1" -> <<"/", "r", "1">>
      [] p = "r2" -> <<"/", "r", "2">>
      [] p = "r1/sub" -> <<"/", "r", "1", "/", "s">>
      [] p = "w" -> <<"/", "w">>
      [] p = "w/sub" -> <<"/", "w", "/", "s">>
      [] p = "r1-old" -> <<"/", "r", "1", "-", "o">>
      [] OTHER -> <<>>

\* str.startswith
startswith(a, b) ==
    LET ca == Chars(a)
        cb == Chars(b)
    IN  Len(cb) <= Len(ca) /\ SubSeq(ca, 1, Len(cb)) = cb

NoHistory == <<>>

\* a root commit rebased after its child was made, and its child, the HEAD
TwoCommits ==
    << [hash |-> 1, at |-> 97, ct |-> 99, parent |-> FALSE, file |-> NoFile],
       [hash |-> 2, at |-> 98, ct |-> 98, parent |-> TRUE, file |-> "f1"] >>

\* ~/.sayu/cli.jsonl
CliLog ==
    << [ts |-> 99000, cwd |-> "r1", cmd |-> "c1"],
       [ts |-> 97000, cwd |-> "r1/sub", cmd |-> "c2"],
       [ts |-> 99000, cwd |-> "r2", cmd |-> "c3"] >>

\* the transcript lines under ~/.claude/projects: repo is the repository
\* git resolves the line's cwd to, "none" when there is none
Transcript ==
    << [ts |-> 99000, repo |-> "r1", text |-> "m1"],
       [ts |-> 98000, repo |-> "r2", text |-> "m2"],
       [ts |-> 99000, repo |-> "none", text |-> "m3"] >>

\* uuid.uuid4(): a fresh id for the k-th event a source builds in invocation n
Uuid(n, s, k) == <<n, s, k>>

\* the %at of the oldest commit instead of HEAD's
get_last_commit_oldest(cm, gitOk) ==
    IF gitOk /\ cm # <<>> THEN Some(cm[1].at * 1000) ELSE None

\* GitCollector.get_last_commit: git log -1 --format=%H|%s|%at
get_last_commit(cm, gitOk) ==
    IF gitOk /\ cm # <<>> THEN Some(cm[Len(cm)].at * 1000) ELSE None

\* GitCollector.pull_since: git log --since --until selects on the committer
\* date, newest first; one event per commit, then one per changed file of
\* the commits that have a parent, all with ts = %at * 1000
git_pull_since(cm, since_ms, until_ms, n) ==
    LET InLog(c) == since_ms <= c.ct * 1000 /\ c.ct * 1000 <= until_ms
        log == SelectSeq(Reverse(cm), InLog)
        Changed(c) == c.parent /\ c.file # NoFile
        changed == SelectSeq(log, Changed)
    IN  [k \in 1..Len(log) |->
            Event(Uuid(n, "git", k), log[k].at * 1000, "git", "commit",
                  repo_root, NoFile, <<"commit", log[k].hash>>)]
        \o
        [k \in 1..Len(changed) |->
            Event(Uuid(n, "git", Len(log) + k), changed[k].at * 1000, "git", "commit",
                  repo_root, changed[k].file, <<"file_change", changed[k].hash>>)]

\* CliCollector._is_repo_related
_is_repo_related(cmd_cwd) == startswith(cmd_cwd, repo_root)

\* CliCollector.pull_since
cli_pull_since(log, since_ms, until_ms, n) ==
    LET Keep(e) == ~(e.ts < since_ms \/ e.ts > until_ms) /\ _is_repo_related(e.cwd)
        kept == SelectSeq(log, Keep)
    IN  [k \in 1..Len(kept) |->
            Event(Uuid(n, "cli", k), kept[k].ts, "cli", "run",
                  repo_root, NoFile, kept[k].cmd)]

\* ClaudeCollector.pull_since, the transcript collector of
\* domain/collectors/claude.py that the manager's claude task runs: one event
\* per line whose cwd is inside a git
\* repository, with that repository as repo; sorted by ts at the end
claude_pull_since(lines, since_ms, until_ms, n) ==
    LET Keep(m) == m.repo # "none" /\ since_ms <= m.ts /\ m.ts <= until_ms
        kept == SelectSeq(lines, Keep)
    IN  sorted([k \in 1..Len(kept) |->
            Event(Uuid(n, "claude", k), kept[k].ts, "llm", "chat",
                  kept[k].repo, NoFile, kept[k].text)])

\* ConversationCollector.pull_since of the Cursor collector: _create_event
\* builds Event(source=EventSource.CURSOR, kind=EventKind.CONVERSATION), and
\* neither name is a member of the enums of domain/events/types.py, so the
\* construction raises AttributeError, which the except around the file's
\* messages catches: the database contributes no event
cursor_pull_since(since_ms, until_ms, n) == <<>>

pull_since(s, cm, since_ms, until_ms, n) ==
    CASE s = "git" -> git_pull_since(cm, since_ms, until_ms, n)
      [] s = "cli" -> cli_pull_since(CliLog, since_ms, until_ms, n)
      [] s = "cursor" -> cursor_pull_since(since_ms, until_ms, n)
      [] s = "claude" -> claude_pull_since(Transcript, since_ms, until_ms, n)

(***************************************************************************)
(* CollectorManager.collect_since_last_commit.                             *)
(***************************************************************************)
MaxInvocations == 2   \* invocations of collect_since_last_commit in a run
MaxDisturbances == 1  \* post-commit hook runs, clock steps and injected failures in a run

MaxWorkers == 4
Clock0 == 100
LookbackMs == 24 * 60 * 60 * 1000

\* the clock steps taken so far: a step is CacheTtl seconds or a second more
Ticks == (clk - Clock0) \div CacheTtl

\* the budget of disturbances is not used up
MayDisturb == hooks + fails + Ticks < MaxDisturbances

CliModes == {"zsh-preexec", "off"}

\* collector_tasks: git always, the others when the configuration enables them
Enabled(cfg, s) ==
    CASE s = "git" -> TRUE
      [] s = "cli" -> cfg.cli # "off"
      [] s = "cursor" -> cfg.cursor
      [] s = "claude" -> cfg.claude

\* what the future holds: pull_since's list, or [] when pull_since raised
_collect_with_error_handling(s, cm, start, end, n, raises) ==
    IF raises THEN [exc |-> FALSE, events |-> <<>>]
    ELSE [exc |-> FALSE, events |-> pull_since(s, cm, start, end, n)]

\* all_events = events in place of all_events.extend(events)
assign_result(all, f) == IF f.exc THEN all ELSE f.events

\* events = future.result(); all_events.extend(events), an exception skipped
extend_result(all, f) == IF f.exc THEN all ELSE all \o f.events

\* return all_events in place of the store query
return_merged(rs, all, repo, start, end) == all

\* return self.store.find_by_repo(self.repo_root, start_time, now_ms)
return_query(rs, all, repo, start, end) == find_by_repo(rs, repo, start, end)

NoCall == [op |-> "none"]

NoPrev == [valid |-> FALSE]

NoPull == [at |-> "none"]

NoHook == [at |-> "none"]

NotStarted == [at |-> "none"]

AuxIdle ==
    /\ fx = NotStarted
    /\ mx = NotStarted
    /\ cx = NotStarted
    /\ gx = NotStarted
    /\ dp = NotStarted /\ ss = NotStarted /\ mf = NotStarted /\ dq = NotStarted

IdlePcs == {"idle", "returned", "raised"}

CollectIdle ==
    /\ clk = Clock0
    /\ cache = NoEntry
    /\ commits = NoHistory
    /\ config = [cli |-> "zsh-preexec", cursor |-> TRUE, claude |-> TRUE]
    /\ pc = "idle"
    /\ inv = 0
    /\ now_ms = 0
    /\ start_time = 0
    /\ task = [s \in SourceSet |-> "off"]
    /\ all_events = <<>>
    /\ ret = <<>>
    /\ err = "none"
    /\ raisedSrc = {}
    /\ prev = NoPrev
    /\ hooks = 0
    /\ fails = 0

Init ==
    /\ impl = "sqlite"
    /\ rows = <<>>
    /\ out = NoCall
    /\ clk = Clock0
    /\ cache = NoEntry
    /\ commits \in {NoHistory, TwoCommits}
    /\ config \in [cli : CliModes, cursor : BOOLEAN, claude : BOOLEAN]
    /\ pc = "idle"
    /\ inv = 0
    /\ now_ms = 0
    /\ start_time = 0
    /\ task = [s \in SourceSet |-> "off"]
    /\ all_events = <<>>
    /\ ret = <<>>
    /\ err = "none"
    /\ raisedSrc = {}
    /\ prev = NoPrev
    /\ hooks = 0
    /\ fails = 0
    /\ px = NoPull
    /\ hk = NoHook
    /\ AuxIdle

\* Anchor: now_ms and start_time are fixed; gitOk: git log -1 succeeds
Anchor(gitOk) ==
    /\ pc \in IdlePcs
    /\ inv < MaxInvocations
    /\ LET g == CacheGet(cache, clk, CacheTtl)
           last_commit == get_last_commit(commits, gitOk)
           now == clk * 1000
       IN  /\ now_ms' = now
           /\ IF Truthy(g.value)
              THEN /\ start_time' = g.value.v
                   /\ cache' = g.cache
              ELSE IF last_commit.some
              THEN /\ start_time' = last_commit.v
                   /\ cache' = CacheSet(g.cache, clk, last_commit.v)
              ELSE /\ start_time' = now - LookbackMs
                   /\ cache' = g.cache
    /\ prev' = IF pc = "returned"
               THEN [valid |-> TRUE, start |-> start_time, now |-> now_ms, ret |-> ret,
                     commits |-> commits, raisedSrc |-> raisedSrc]
               ELSE NoPrev
    /\ inv' = inv + 1
    /\ all_events' = <<>>
    /\ err' = "none"
    /\ raisedSrc' = {}
    /\ pc' = "dispatch"
    /\ UNCHANGED boundaryVars
    /\ UNCHANGED <<impl, rows, out, clk, commits, config, task, ret, hooks, fails>>

\* Dispatch: one task per enabled source is submitted to the pool, whose
\* MaxWorkers threads take them all
Dispatch ==
    /\ pc = "dispatch"
    /\ task' = [s \in SourceSet |-> IF Enabled(config, s) THEN "running" ELSE "off"]
    /\ pc' = "collect"
    /\ UNCHANGED boundaryVars
    /\ UNCHANGED <<impl, rows, out, clk, cache, commits, config, inv, now_ms, start_time,
                   all_events, ret, err, raisedSrc, prev, hooks, fails>>

\* a task finishes (its pull_since returned or raised) and as_completed
\* yields its future: the result is merged into all_events
Complete(s, raises) ==
    /\ pc = "collect"
    /\ task[s] = "running"
    /\ raises => MayDisturb
    /\ all_events' = extend_result(all_events,
                        _collect_with_error_handling(s, commits, start_time, now_ms, inv, raises))
    /\ task' = [task EXCEPT ![s] = "done"]
    /\ raisedSrc' = IF raises THEN raisedSrc \cup {s} ELSE raisedSrc
    /\ fails' = IF raises THEN fails + 1 ELSE fails
    /\ UNCHANGED boundaryVars
    /\ UNCHANGED <<impl, rows, out, clk, cache, commits, config, pc, inv, now_ms, start_time,
                   ret, err, prev, hooks>>

\* the loop would end when the first future has been yielded
first_completed == \E s \in SourceSet : task[s] = "done"

\* the loop over as_completed(future_to_collector) ends, and the with block
\* of the pool is left, when every submitted future has been yielded
all_completed == \A s \in SourceSet : task[s] \in {"off", "done"}

\* Persist: every future was merged; the merged events are inserted in one batch
Persist(fault) ==
    /\ pc = "collect"
    /\ all_completed
    /\ fault # 0 => MayDisturb
    /\ IF all_events # <<>>
       THEN LET r == insert_batch(rows, all_events, fault)
            IN  /\ rows' = r.rows
                /\ err' = IF r.raised THEN "storage" ELSE "none"
                /\ pc' = IF r.raised THEN "raised" ELSE "query"
       ELSE /\ pc' = "query"
            /\ UNCHANGED <<rows, err>>
    /\ fails' = IF fault # 0 THEN fails + 1 ELSE fails
    /\ UNCHANGED boundaryVars
    /\ UNCHANGED <<impl, out, clk, cache, commits, config, inv, now_ms, start_time,
                   task, all_events, ret, raisedSrc, prev, hooks>>

\* Query: the return value
ReturnQuery ==
    /\ pc = "query"
    /\ ret' = return_query(rows, all_events, repo_root, start_time, now_ms)
    /\ pc' = "returned"
    /\ UNCHANGED boundaryVars
    /\ UNCHANGED <<impl, rows, out, clk, cache, commits, config, inv, now_ms, start_time,
                   task, all_events, err, raisedSrc, prev, hooks, fails>>

\* the user commits and HookHandlers.handle_post_commit stores the new HEAD
PostCommit ==
    /\ pc \in IdlePcs
    /\ MayDisturb
    /\ LET c == [hash |-> Len(commits) + 1, at |-> clk, ct |-> clk,
                 parent |-> commits # <<>>, file |-> "f1"]
           e == Event(Uuid(0, "hook", hooks + 1), c.at * 1000, "git", "commit",
                      repo_root, NoFile, <<"hook", c.hash>>)
       IN  /\ commits' = Append(commits, c)
           /\ rows' = insert(rows, e, 0).rows
    /\ hooks' = hooks + 1
    /\ UNCHANGED boundaryVars
    /\ UNCHANGED <<impl, out, clk, cache, config, pc, inv, now_ms, start_time, task,
                   all_events, ret, err, raisedSrc, prev, fails>>

\* time passes between two invocations: as long as a cache entry lives, or
\* a second longer
Tick(d) ==
    /\ pc \in IdlePcs
    /\ MayDisturb
    /\ clk' = clk + d
    /\ UNCHANGED boundaryVars
    /\ UNCHANGED <<impl, rows, out, cache, commits, config, pc, inv, now_ms, start_time,
                   task, all_events, ret, err, raisedSrc, prev, hooks, fails>>

Next ==
    \/ \E gitOk \in BOOLEAN : Anchor(gitOk)
    \/ Dispatch
    \/ \E s \in SourceSet, raises \in BOOLEAN : Complete(s, raises)
    \/ \E fault \in 0..Len(all_events) : Persist(fault)
    \/ ReturnQuery
    \/ PostCommit
    \/ \E d \in {CacheTtl, CacheTtl + 1} : Tick(d)

Spec == Init /\ [][Next]_vars

(***************************************************************************)
(* The error boundary of each extractor's pull_since.  A call first        *)
(* acquires its source (git log, the CLI log, the Cursor databases, the    *)
(* transcript directory) and then works through the source's units         *)
(* (log lines, commits, database files, transcript lines); a failure can   *)
(* strike at either point.                                                 *)
(***************************************************************************)
MaxUnits == 3         \* units a source holds in one pull_since call

\* the failures of acquiring the source: "absent" (the directory, file or
\* database does not exist), "vanished" (it exists when checked and is gone
\* when read), "failed" (the subprocess exits non-zero), "nobinary" (the
\* executable is missing)
EnterFaults(who) ==
    IF who = "git" THEN {"none", "absent", "failed", "nobinary"}
    ELSE {"none", "absent", "vanished"}

\* where the call goes after acquiring the source: on to the units, to the
\* return statement, or to the except clause around the whole body
EnterRoute(who, fault) ==
    CASE fault = "none" -> "units"
      [] who = "git" /\ fault = "failed" -> "return"
      [] who = "git" /\ fault \in {"absent", "nobinary"} -> "outer"
      [] who # "git" /\ fault = "absent" -> "return"
      [] who # "git" /\ fault = "vanished" -> "outer"

\* the failures of one unit: "malformed" (the parser rejects it: invalid
\* JSON, a missing key, too few fields), "badtype" (it parses and a field has
\* the wrong type), "failed" (the subprocess run for the unit fails)
UnitFaults(who) ==
    IF who \in {"git", "claude"} THEN {"none", "malformed", "badtype", "failed"}
    ELSE {"none", "malformed", "badtype"}

\* what becomes of the unit: its events are appended, it is skipped, or the
\* exception reaches the except clause around the whole body
UnitRoute(who, fault) ==
    CASE who = "git" ->
            (CASE fault \in {"none", "failed"} -> "append"
               [] fault = "malformed" -> "skip"
               [] fault = "badtype" -> "outer")
      [] who = "cli" ->
            (CASE fault = "none" -> "append"
               [] fault = "malformed" -> "skip"
               [] fault = "badtype" -> "outer")
      [] who = "cursor" -> "skip"
      [] who = "claude" ->
            (CASE fault = "none" -> "append"
               [] OTHER -> "skip")

\* get_event_source() of the collector: CursorConversationCollector returns
\* EventSource.CURSOR, which is not a member of EventSource
get_event_source_raises(who) == who = "cursor"

\* the except clause around the whole body: the conversation base formats
\* self.get_event_source().value into its SAYU_DEBUG message
OuterHandler(who, debug) ==
    IF who = "cursor" /\ debug /\ get_event_source_raises(who) THEN "raised" ELSE "returned"

PullInit ==
    /\ impl = "sqlite"
    /\ rows = <<>>
    /\ out = NoCall
    /\ CollectIdle
    /\ hk = NoHook
    /\ AuxIdle
    /\ px \in [who : SourceSet, debug : BOOLEAN, units : 0..MaxUnits,
               k : {0}, n : {0}, at : {"enter"}, fault : {"none"}]

PullEnter(fault) ==
    /\ px.at = "enter"
    /\ fault \in EnterFaults(px.who)
    /\ LET route == EnterRoute(px.who, fault)
       IN  px' = [px EXCEPT !.fault = fault,
                            !.at = CASE route = "units" -> "units"
                                     [] route = "return" -> "returned"
                                     [] route = "outer" -> OuterHandler(px.who, px.debug)]
    /\ UNCHANGED <<storeVars, collectVars, partVars, hk, fx, mx, cx, gx>>

PullUnit(fault) ==
    /\ px.at = "units"
    /\ px.k < px.units
    /\ fault \in UnitFaults(px.who)
    /\ LET route == UnitRoute(px.who, fault)
       IN  px' = [px EXCEPT !.fault = fault,
                            !.k = px.k + 1,
                            !.n = IF route = "append" THEN px.n + 1 ELSE px.n,
                            !.at = IF route = "outer"
                                   THEN OuterHandler(px.who, px.debug)
                                   ELSE "units"]
    /\ UNCHANGED <<storeVars, collectVars, partVars, hk, fx, mx, cx, gx>>

PullReturn ==
    /\ px.at = "units"
    /\ px.k = px.units
    /\ px' = [px EXCEPT !.at = "returned"]
    /\ UNCHANGED <<storeVars, collectVars, partVars, hk, fx, mx, cx, gx>>

PullNext ==
    \/ \E fault \in {"none", "absent", "vanished", "failed", "nobinary"} : PullEnter(fault)
    \/ \E fault \in {"none", "malformed", "badtype", "failed"} : PullUnit(fault)
    \/ PullReturn

SpecPull == PullInit /\ [][PullNext]_vars

(***************************************************************************)
(* The git hooks: the generated script (GitHookManager._install_hook), the *)
(* entry point it runs (cli/main.py, hook) and the two handlers            *)
(* (HookHandlers.handle_commit_msg, handle_post_commit).                   *)
(***************************************************************************)
\* the steps of a handler, in the order of its code
HandlerStages(hook_type) ==
    IF hook_type = "commit-msg"
    THEN <<"git_root", "config", "read_msg", "staged", "summary", "write">>
    ELSE <<"git_root", "store", "git_log", "insert">>

\* the except clause that catches an exception of the step: the one around
\* the summary generation, or the one around the handler's whole body
HandlerCatch(hook_type, stage) ==
    IF hook_type = "commit-msg" /\ stage \in {"summary", "write"} THEN "inner" ELSE "outer"

\* GitHookManager.get_repo_root: the path; None on CalledProcessError (not a
\* repository); FileNotFoundError (git is missing) is not caught there
get_repo_root(outcome) ==
    CASE outcome = "ok" -> [raised |-> FALSE, root |-> repo_root]
      [] outcome = "notrepo" -> [raised |-> FALSE, root |-> "none"]
      [] outcome = "nogit" -> [raised |-> TRUE, root |-> "none"]

\* the exception of the try body leaves the process: exit status 1
hook_exit_uncaught(raised) == IF raised THEN 1 ELSE 0

\* hook: sys.exit(0) at the end of the try body and in except Exception
hook_exit(raised) == 0

\* the script's last command is exit 0, whatever the launcher's status was
script_exit(status) == 0

HookInit ==
    /\ impl = "sqlite"
    /\ rows = <<>>
    /\ out = NoCall
    /\ CollectIdle
    /\ px = NoPull
    /\ AuxIdle
    /\ hk \in [hook_type : {"commit-msg", "post-commit"}, file : BOOLEAN, launcher : BOOLEAN, debug : BOOLEAN,
               at : {"script"}, stage : {0}, caught : {"none"}, status : {-1}, script : {-1}]

\* the script looks for a launcher of sayu and runs `sayu hook <type> "$@"`
ScriptStart ==
    /\ hk.at = "script"
    /\ hk' = IF hk.launcher
             THEN [hk EXCEPT !.at = "hook"]
             ELSE [hk EXCEPT !.at = "done", !.script = script_exit(hk.status)]
    /\ UNCHANGED <<storeVars, collectVars, partVars, px, fx, mx, cx, gx>>

\* hook: get_repo_root, and the choice of the handler
HookEnter(outcome) ==
    /\ hk.at = "hook"
    /\ LET r == get_repo_root(outcome)
           handled == \/ hk.hook_type = "commit-msg" /\ hk.file
                      \/ hk.hook_type = "post-commit"
       IN  hk' = IF r.raised
                 THEN [hk EXCEPT !.at = "exited", !.caught = "hook",
                                 !.status = hook_exit(TRUE)]
                 ELSE IF r.root = "none" \/ ~handled
                 THEN [hk EXCEPT !.at = "exited", !.status = hook_exit(FALSE)]
                 ELSE [hk EXCEPT !.at = "handler", !.stage = 1]
    /\ UNCHANGED <<storeVars, collectVars, partVars, px, fx, mx, cx, gx>>

\* one step of the handler; after the handler's return hook calls sys.exit(0)
HandlerStep(outcome) ==
    /\ hk.at = "handler"
    /\ LET stages == HandlerStages(hk.hook_type)
           stage == stages[hk.stage]
       IN  /\ outcome = "stop" => stage \in {"git_root", "config", "read_msg", "staged", "git_log"}
           /\ hk' = CASE outcome = "ok" /\ hk.stage < Len(stages) ->
                            [hk EXCEPT !.stage = hk.stage + 1]
                      [] outcome = "ok" /\ hk.stage = Len(stages) ->
                            [hk EXCEPT !.at = "exited", !.status = hook_exit(FALSE)]
                      [] outcome = "stop" ->
                            [hk EXCEPT !.at = "exited", !.status = hook_exit(FALSE)]
                      [] outcome = "error" ->
                            [hk EXCEPT !.at = "exited",
                                       !.caught = HandlerCatch(hk.hook_type, stage),
                                       !.status = hook_exit(FALSE)]
    /\ UNCHANGED <<storeVars, collectVars, partVars, px, fx, mx, cx, gx>>

\* the launcher has exited and the script runs its last command
ScriptExit ==
    /\ hk.at = "exited"
    /\ hk' = [hk EXCEPT !.at = "done", !.script = script_exit(hk.status)]
    /\ UNCHANGED <<storeVars, collectVars, partVars, px, fx, mx, cx, gx>>

HookNext ==
    \/ ScriptStart
    \/ \E outcome \in {"ok", "notrepo", "nogit"} : HookEnter(outcome)
    \/ \E outcome \in {"ok", "stop", "error"} : HandlerStep(outcome)
    \/ ScriptExit

SpecHook == HookInit /\ [][HookNext]_vars

(***************************************************************************)
(* What the extractors make of one conversation record.  A text is a       *)
(* sequence of tokens, joined by one character; a token stands for a run   *)
(* of characters.  Times are in units of 10^7: SecondsSample stands for a  *)
(* time of 1.69 * 10^9 s, MsSample for the same time in ms, Below1e10 for  *)
(* the 1e10 of the code.                                                   *)
(***************************************************************************)
MaxParts == 2         \* content parts of one message

Tokens == {"hello", "fix bug", "a longer sentence", "tool_use_id", "TOOL_RESULT", "<Invoke>"}

\* str.lower()
Lower(tok) ==
    CASE tok = "TOOL_RESULT" -> "tool_result"
      [] tok = "<Invoke>" -> "<invoke>"
      [] tok = "[Tool: x] used" -> "[tool: x] used"
      [] tok = "[Tool Result]" -> "[tool result]"
      [] OTHER -> tok

\* len() of a token
TokLen(tok) ==
    CASE tok = "" -> 0
      [] tok = "hello" -> 5
      [] tok = "fix bug" -> 7
      [] tok = "a longer sentence" -> 17
      [] tok = "tool_use_id" -> 11
      [] tok = "TOOL_RESULT" -> 11
      [] tok = "<Invoke>" -> 8
      [] tok = "[Tool: x] used" -> 14
      [] tok = "[Tool Result]" -> 13

RECURSIVE TextLen(_)
\* len() of the tokens joined by one character
TextLen(text) ==
    IF text = <<>> THEN 0
    ELSE IF Len(text) = 1 THEN TokLen(text[1])
    ELSE TokLen(Head(text)) + 1 + TextLen(Tail(text))

\* any(pattern in text.lower() for pattern in patterns)
ContainsAny(text, patterns) == \E k \in DOMAIN text : Lower(text[k]) \in patterns

\* ConversationCollector._is_tool_related_content of a str: a pattern, or
\* fewer than 10 characters (no token holds a brace or a tag of xml_tags
\* that is not a pattern)
_is_tool_related_content(text) ==
    IF text = <<>> THEN FALSE
    ELSE \/ ContainsAny(text, {"tool_use_id", "function_calls", "<invoke>", "tool_result"})
         \/ TextLen(text) < 10

\* the member names of EventSource and EventKind (domain/events/types.py)
EventSourceNames == {"LLM", "EDITOR", "CLI", "BROWSER", "GIT"}

EventKindNames == {"CHAT", "EDIT", "SAVE", "RUN", "NAV", "COMMIT", "TEST", "BENCH", "ERROR",
                   "DOC", "NOTE", "CONFIG"}

\* get_event_source of the collectors built on the conversation base
get_event_source(who) == IF who = "cursor" THEN "CURSOR" ELSE "CLAUDE"

NoEvent == [kind |-> "none", ts |-> 0, actor |-> "none", repo |-> "none",
            source |-> "none", text |-> <<>>]

Emitted(ts, actor, repo, source, text) ==
    [kind |-> "event", ts |-> ts, actor |-> actor, repo |-> repo,
     source |-> source, text |-> text]

\* ConversationCollector._create_event of a message with a flat text: the
\* role gate, the tool filters, the length floor, and the construction
\* Event(source=self.get_event_source(), kind=EventKind.CONVERSATION, ...)
_create_event(who, message, collector_root) ==
    IF message.role \notin {"user", "assistant"} THEN NoEvent
    ELSE IF message.text # <<>> /\ _is_tool_related_content(message.text) THEN NoEvent
    ELSE IF message.text = <<>> \/ TextLen(message.text) < 3 THEN NoEvent
    ELSE IF ContainsAny(message.text, {"tool_use_id", "function_calls", "<invoke>",
                                       "antml:parameter", "tool_result"}) THEN NoEvent
    ELSE IF get_event_source(who) \notin EventSourceNames
            \/ "CONVERSATION" \notin EventKindNames THEN [NoEvent EXCEPT !.kind = "raised"]
    ELSE Emitted(message.timestamp,
                 IF message.role = "user" THEN "user" ELSE "assistant",
                 collector_root, get_event_source(who), message.text)

SecondsSample == 169
MsSample == 169000
Below1e10 == 1000
ConvSince == 100000
ConvUntil == 200000

\* the time of the row is kept in the unit it was written in
CursorMessageUnscaled(row) ==
    LET t1 == row.tokenCountUpUntilHere
        t2 == IF t1 = 0 THEN row.createdAt ELSE t1
        timestamp == IF t2 = 0 THEN row.lastUpdatedAt ELSE t2
    IN  [some |-> row.text # <<>> /\ timestamp > 0,
         timestamp |-> timestamp,
         role |-> IF row.type = 1 THEN "user" ELSE "assistant",
         text |-> row.text]

\* parse_conversation_file of one bubble row: timestamp from
\* tokenCountUpUntilHere, else createdAt, else the composer's lastUpdatedAt;
\* a value below 1e10 is taken for seconds; no message without text or time
CursorMessage(row) ==
    LET t1 == row.tokenCountUpUntilHere
        t2 == IF t1 = 0 THEN row.createdAt ELSE t1
        t3 == IF t2 = 0 THEN row.lastUpdatedAt ELSE t2
        timestamp == IF t3 > 0 /\ t3 < Below1e10 THEN t3 * 1000 ELSE t3
    IN  [some |-> row.text # <<>> /\ timestamp > 0,
         timestamp |-> timestamp,
         role |-> IF row.type = 1 THEN "user" ELSE "assistant",
         text |-> row.text]

\* the Cursor collector on one row: the message, the window of pull_since,
\* _create_event
cursor_row_event(row) ==
    LET m == CursorMessage(row)
    IN  IF ~m.some THEN NoEvent
        ELSE IF ~(ConvSince <= m.timestamp /\ m.timestamp <= ConvUntil) THEN NoEvent
        ELSE _create_event("cursor", m, repo_root)

IsoInside == 175704
IsoOutside == 50000

\* ClaudeCollector._parse_iso_timestamp of the line's timestamp field
_parse_iso_timestamp(timestamp) ==
    CASE timestamp = "inside" -> IsoInside
      [] timestamp = "outside" -> IsoOutside
      [] OTHER -> 0

\* what one content item adds to text_parts
ItemText(item) ==
    CASE item.type = "text" -> <<item.text>>
      [] item.type = "tool_use" -> <<"[Tool: x] used">>
      [] item.type = "tool_result" ->
            IF item.text = "" THEN <<>> ELSE <<"[Tool Result]", item.text>>

RECURSIVE _extract_text_content(_)
\* ClaudeCollector._extract_text_content: ' '.join(text_parts)
_extract_text_content(content) ==
    IF content = <<>> THEN <<>>
    ELSE ItemText(Head(content)) \o _extract_text_content(Tail(content))

\* the directories of the machine: the repositories r1 and r2, and w, a
\* directory outside any repository
\* git rev-parse --show-toplevel run in cwd; "none" when git fails there or
\* the directory does not exist
show_toplevel(cwd) ==
    CASE cwd \in {"r1", "r1/sub"} -> "r1"
      [] cwd = "r2" -> "r2"
      [] OTHER -> "none"

\* ClaudeCollector._determine_repo_from_cwd
_determine_repo_from_cwd(cwd) == IF cwd = "" THEN "none" ELSE show_toplevel(cwd)

\* ClaudeCollector._create_event_from_message
_create_event_from_message(data) ==
    LET timestamp_ms == _parse_iso_timestamp(data.timestamp)
        text_content == _extract_text_content(data.content)
        actual_repo == _determine_repo_from_cwd(data.cwd)
    IN  IF data.timestamp = "none" \/ timestamp_ms = 0 THEN NoEvent
        ELSE IF text_content = <<>> \/ TextLen(text_content) < 5 THEN NoEvent
        ELSE IF actual_repo = "none" THEN NoEvent
        ELSE Emitted(timestamp_ms,
                     IF data.type = "user" THEN "user" ELSE "assistant",
                     actual_repo, "LLM", text_content)

\* ClaudeCollector._parse_jsonl_file on one line: the event, kept when its
\* ts is in the window
transcript_line_event(data) ==
    LET event == _create_event_from_message(data)
    IN  IF event.kind = "event" /\ ConvSince <= event.ts /\ event.ts <= ConvUntil
        THEN event ELSE NoEvent

\* os.getcwd() of a process started outside any repository
getcwd == "w"

\* CollectorManager.__init__: repo_root or GitHookManager.get_repo_root() or
\* os.getcwd(); get_repo_root raises when git cannot be started
manager_repo_root(arg, outcome) ==
    IF arg # "" THEN [raised |-> FALSE, root |-> arg]
    ELSE LET g == get_repo_root(outcome)
         IN  IF g.raised THEN g
             ELSE IF g.root # "none" THEN g
             ELSE [raised |-> FALSE, root |-> getcwd]

\* CliCollector of a manager built with arg: pull_since on one entry of the
\* log, _entry_to_event with repo=self.repo_root
cli_entry_event(arg, outcome, entry) ==
    LET m == manager_repo_root(arg, outcome)
    IN  IF m.raised THEN [NoEvent EXCEPT !.kind = "raised"]
        ELSE IF entry.ts < ConvSince \/ entry.ts > ConvUntil THEN NoEvent
        ELSE IF ~startswith(entry.cwd, m.root) THEN NoEvent
        ELSE Emitted(entry.ts, "user", m.root, "CLI", <<"a longer sentence">>)

ConvInit ==
    /\ impl = "sqlite" /\ rows = <<>> /\ out = NoCall
    /\ CollectIdle
    /\ px = NoPull /\ hk = NoHook
    /\ fx = NotStarted /\ cx = NotStarted /\ gx = NotStarted
    /\ dp = NotStarted /\ ss = NotStarted /\ mf = NotStarted /\ dq = NotStarted
    /\ LET ContentItems ==
               [type : {"text"}, text : Tokens]
                   \cup {[type |-> "tool_use", text |-> ""]}
                   \cup [type : {"tool_result"}, text : {"", "hello"}]
           TranscriptLines ==
               [who : {"claude"}, timestamp : {"none", "inside", "outside"},
                type : {"user", "assistant", "none"}, role : {"user", "assistant", "system"},
                content : UNION {[1..n -> ContentItems] : n \in 0..MaxParts},
                cwd : {"", "gone", "w", "r1", "r1/sub", "r2"}]
           CursorRows ==
               [who : {"cursor"}, type : {1, 2},
                text : {<<>>, <<"fix bug">>, <<"a longer sentence">>, <<"tool_use_id">>,
                        <<"a longer sentence", "TOOL_RESULT">>},
                createdAt : {0, SecondsSample, MsSample}, tokenCountUpUntilHere : {0, 5},
                lastUpdatedAt : {0, MsSample}]
           CliEntries ==
               [who : {"cli"}, arg : {"", "r1"}, outcome : {"ok", "notrepo", "nogit"},
                ts : {IsoInside, IsoOutside}, cwd : {"r1", "r1/sub", "r1-old", "r2", "w", "w/sub"}]
       IN  \E r \in TranscriptLines \cup CursorRows \cup CliEntries :
               mx = [at |-> "read", rec |-> r, msg |-> NotStarted, res |-> NoEvent]

ConvertLine ==
    /\ mx.at = "read" /\ mx.rec.who = "claude"
    /\ mx' = [mx EXCEPT !.at = "done", !.res = transcript_line_event(mx.rec)]
    /\ UNCHANGED <<storeVars, collectVars, partVars, px, hk, fx, cx, gx>>

ConvertRow ==
    /\ mx.at = "read" /\ mx.rec.who = "cursor"
    /\ mx' = [mx EXCEPT !.at = "done", !.msg = CursorMessage(mx.rec),
                        !.res = cursor_row_event(mx.rec)]
    /\ UNCHANGED <<storeVars, collectVars, partVars, px, hk, fx, cx, gx>>

ConvertEntry ==
    /\ mx.at = "read" /\ mx.rec.who = "cli"
    /\ mx' = [mx EXCEPT !.at = "done",
                        !.res = cli_entry_event(mx.rec.arg, mx.rec.outcome, mx.rec)]
    /\ UNCHANGED <<storeVars, collectVars, partVars, px, hk, fx, cx, gx>>

ConvNext == ConvertLine \/ ConvertRow \/ ConvertEntry

SpecConv == ConvInit /\ [][ConvNext]_vars

(***************************************************************************)
(* Processes that get and set one key of the file cache.  get is three     *)
(* steps (the exists test, the read, the expiry test with its unlink), set *)
(* is two (open for writing, which truncates, and the write at close).     *)
(***************************************************************************)
MaxProcs == 2         \* processes sharing the cache directory
MaxCalls == 3         \* get and set calls started in a run

Procs == 1..MaxProcs

CacheValues == {1, 22}

\* the characters json.dump writes for a value
ValueLen(v) == IF v < 10 THEN 1 ELSE 2

EmptyFile == [kind |-> "empty", timestamp |-> 0, value |-> 0, len |-> 0]

\* the file after json.dump of {'timestamp': t, 'value': v} into an empty file
FullFile(t, v) == [kind |-> "full", timestamp |-> t, value |-> v, len |-> ValueLen(v)]

\* a write at offset 0 of a file opened with 'w' by a process that did not
\* truncate last: the bytes beyond the new text stay
Overwrite(content, t, v) ==
    IF content.len > ValueLen(v)
    THEN [kind |-> "mixed", timestamp |-> t, value |-> v, len |-> content.len]
    ELSE FullFile(t, v)

IdleProc == [pc |-> "idle", seen |-> EmptyFile, data |-> EmptyFile, orphan |-> FALSE,
             ret |-> None]

CacheInit ==
    /\ impl = "sqlite" /\ rows = <<>> /\ out = NoCall
    /\ CollectIdle
    /\ px = NoPull /\ hk = NoHook
    /\ fx = NotStarted /\ mx = NotStarted /\ gx = NotStarted
    /\ dp = NotStarted /\ ss = NotStarted /\ mf = NotStarted /\ dq = NotStarted
    /\ \E old \in BOOLEAN :
          cx = [at |-> "run", linked |-> old,
                content |-> IF old THEN FullFile(0, 22) ELSE EmptyFile,
                now |-> 0, calls |-> 0, alone |-> TRUE,
                last |-> [valid |-> old, timestamp |-> 0, value |-> IF old THEN 22 ELSE 0],
                procs |-> [p \in Procs |-> IdleProc]]

\* the entry is expired from the ttl-th second on
is_expired_at_ttl(now, timestamp, ttl) == now - timestamp >= ttl

\* get: if time.time() - data['timestamp'] > ttl
is_expired(now, timestamp, ttl) == now - timestamp > ttl

\* get: if not cache_file.exists(): return None
GetExists(p) ==
    /\ cx.at = "run" /\ cx.procs[p].pc = "idle" /\ cx.calls < MaxCalls
    /\ cx' = [cx EXCEPT !.calls = @ + 1,
                        !.alone = @ /\ \A q \in Procs : cx.procs[q].pc = "idle",
                        !.procs[p] = IF cx.linked
                                     THEN [IdleProc EXCEPT !.pc = "opened"]
                                     ELSE IdleProc]
    /\ UNCHANGED <<storeVars, collectVars, partVars, px, hk, fx, mx, gx>>

\* get: open and json.load; a missing file, an empty one and one with
\* bytes left over after the object raise, and the except returns None
GetRead(p) ==
    /\ cx.at = "run" /\ cx.procs[p].pc = "opened"
    /\ cx' = [cx EXCEPT !.procs[p] =
                 IF cx.linked /\ cx.content.kind = "full"
                 THEN [@ EXCEPT !.pc = "loaded", !.seen = cx.content]
                 ELSE IdleProc]
    /\ UNCHANGED <<storeVars, collectVars, partVars, px, hk, fx, mx, gx>>

\* get: the expiry test on the data read, cache_file.unlink() by path when
\* it is expired, else return data['value']
GetCheck(p, ttl) ==
    /\ cx.at = "run" /\ cx.procs[p].pc = "loaded"
    /\ LET expired == is_expired(cx.now, cx.procs[p].seen.timestamp, ttl)
       IN  cx' = IF expired
                 THEN [cx EXCEPT !.linked = FALSE,
                                 !.procs = [q \in Procs |->
                                     IF q = p THEN IdleProc
                                     ELSE IF cx.procs[q].pc = "writing"
                                          THEN [cx.procs[q] EXCEPT !.orphan = TRUE]
                                          ELSE cx.procs[q]]]
                 ELSE [cx EXCEPT !.procs[p] =
                                     [IdleProc EXCEPT !.ret = Some(cx.procs[p].seen.value)]]
    /\ UNCHANGED <<storeVars, collectVars, partVars, px, hk, fx, mx, gx>>

\* set: data = {'timestamp': time.time(), 'value': value}; open(cache_file, 'w')
SetOpen(p, v) ==
    /\ cx.at = "run" /\ cx.procs[p].pc = "idle" /\ cx.calls < MaxCalls
    /\ cx' = [cx EXCEPT !.calls = @ + 1, !.linked = TRUE, !.content = EmptyFile,
                        !.alone = @ /\ \A q \in Procs : cx.procs[q].pc = "idle",
                        !.procs[p] = [IdleProc EXCEPT !.pc = "writing",
                                                      !.data = FullFile(cx.now, v)]]
    /\ UNCHANGED <<storeVars, collectVars, partVars, px, hk, fx, mx, gx>>

\* set: json.dump and the close that writes the text; the file a get
\* unlinked in between is no longer the one the key names
SetWrite(p) ==
    /\ cx.at = "run" /\ cx.procs[p].pc = "writing"
    /\ LET d == cx.procs[p].data
       IN  cx' = [cx EXCEPT !.content = IF cx.procs[p].orphan THEN @
                                        ELSE Overwrite(@, d.timestamp, d.value),
                           !.last = [valid |-> TRUE, timestamp |-> d.timestamp,
                                     value |-> d.value],
                           !.procs[p] = IdleProc]
    /\ UNCHANGED <<storeVars, collectVars, partVars, px, hk, fx, mx, gx>>

\* clear: every cache file is unlinked, this key's among them
CacheClear ==
    /\ cx.at = "run" /\ cx.calls < MaxCalls
    /\ cx' = [cx EXCEPT !.calls = @ + 1, !.linked = FALSE,
                        !.alone = @ /\ \A q \in Procs : cx.procs[q].pc = "idle",
                        !.last.valid = FALSE,
                        !.procs = [q \in Procs |->
                            IF cx.procs[q].pc = "writing"
                            THEN [cx.procs[q] EXCEPT !.orphan = TRUE]
                            ELSE cx.procs[q]]]
    /\ UNCHANGED <<storeVars, collectVars, partVars, px, hk, fx, mx, gx>>

\* time passes: as long as an entry lives, or a second longer
CacheTick(d) ==
    /\ cx.at = "run" /\ cx.now < MaxDisturbances * CacheTtl
    /\ cx' = [cx EXCEPT !.now = @ + d]
    /\ UNCHANGED <<storeVars, collectVars, partVars, px, hk, fx, mx, gx>>

CacheNext ==
    \/ \E p \in Procs : GetExists(p) \/ GetRead(p) \/ GetCheck(p, CacheTtl) \/ SetWrite(p)
    \/ \E p \in Procs, v \in CacheValues : SetOpen(p, v)
    \/ CacheClear
    \/ \E d \in {CacheTtl, CacheTtl + 1} : CacheTick(d)

SpecCache == CacheInit /\ [][CacheNext]_vars

(***************************************************************************)
(* One parser working through the units of one file: the lines of the CLI  *)
(* log, the lines of a transcript, the bubble rows of the Cursor database. *)
(* A unit is well-formed ("ok"), not valid JSON ("notjson"), valid JSON    *)
(* that is not an object ("nonobject"), or an object without the fields    *)
(* the parser reads ("nofield").                                           *)
(***************************************************************************)
\* what the parser's loop body does with one unit: "yield" a message,
\* "skip" the unit, or "abort": the exception is not in the tuple of the
\* except clause inside the loop and reaches the one around it
ParseRoute(who, kind) ==
    CASE who = "cli" ->
            (CASE kind = "ok" -> "yield"
               [] kind \in {"notjson", "nofield"} -> "skip"
               [] kind = "nonobject" -> "abort")
      [] who = "cursor" ->
            (CASE kind = "ok" -> "yield"
               [] kind \in {"notjson", "nofield"} -> "skip"
               [] kind = "nonobject" -> "abort")
      [] who = "claude" ->
            (CASE kind = "ok" -> "yield"
               [] OTHER -> "skip")

FileInit ==
    /\ impl = "sqlite" /\ rows = <<>> /\ out = NoCall
    /\ CollectIdle
    /\ px = NoPull /\ hk = NoHook
    /\ mx = NotStarted /\ cx = NotStarted /\ gx = NotStarted
    /\ dp = NotStarted /\ ss = NotStarted /\ mf = NotStarted /\ dq = NotStarted
    /\ \E who \in {"cli", "cursor", "claude"}, n \in 1..MaxUnits :
          \E units \in [1..n -> {"ok", "notjson", "nonobject", "nofield"}] :
              fx = [at |-> "units", who |-> who, units |-> units, k |-> 0, msgs |-> {}]

\* one pass of the loop body
ParseUnit ==
    /\ fx.at = "units" /\ fx.k < Len(fx.units)
    /\ LET route == ParseRoute(fx.who, fx.units[fx.k + 1])
       IN  fx' = [fx EXCEPT !.k = @ + 1,
                            !.msgs = IF route = "yield" THEN @ \cup {fx.k + 1} ELSE @,
                            !.at = IF route = "abort" THEN "done" ELSE "units"]
    /\ UNCHANGED <<storeVars, collectVars, partVars, px, hk, mx, cx, gx>>

\* the loop ends and the parser returns what it has
ParseDone ==
    /\ fx.at = "units" /\ fx.k = Len(fx.units)
    /\ fx' = [fx EXCEPT !.at = "done"]
    /\ UNCHANGED <<storeVars, collectVars, partVars, px, hk, mx, cx, gx>>

FileNext == ParseUnit \/ ParseDone

SpecFile == FileInit /\ [][FileNext]_vars

(***************************************************************************)
(* The git subprocesses of one invocation: the anchor lookup (unless the   *)
(* cache answered), the log call of the git extractor and, for each commit *)
(* with a parent, a name-status call and a diff call.  ShellExecutor       *)
(* passes no timeout to subprocess.run, which then waits until the process *)
(* exits.                                                                  *)
(***************************************************************************)
MaxCommits == 2       \* commits with a parent in the window

RECURSIVE CommitCalls(_)
CommitCalls(n) == IF n = 0 THEN <<>> ELSE <<"name_status", "diff">> \o CommitCalls(n - 1)

\* the calls the invocation will make if each one succeeds
GitCalls(cached, n) ==
    (IF cached THEN <<>> ELSE <<"last_commit">>) \o <<"log">> \o CommitCalls(n)

\* the calls left after the first one has returned with the given outcome: a
\* failed log call ends pull_since, a failed name-status call skips the diff
CallsAfter(todo, outcome) ==
    CASE outcome = "exit0" -> Tail(todo)
      [] Head(todo) = "log" -> <<>>
      [] Head(todo) = "name_status" -> Tail(Tail(todo))
      [] OTHER -> Tail(todo)

GitInit ==
    /\ impl = "sqlite" /\ rows = <<>> /\ out = NoCall
    /\ CollectIdle
    /\ px = NoPull /\ hk = NoHook
    /\ fx = NotStarted /\ mx = NotStarted /\ cx = NotStarted
    /\ dp = NotStarted /\ ss = NotStarted /\ mf = NotStarted /\ dq = NotStarted
    /\ \E cached \in BOOLEAN, n \in 0..MaxCommits :
          gx = [at |-> "calling", todo |-> GitCalls(cached, n), proc |-> "none",
                done |-> <<>>]

\* ShellExecutor.git_exec: subprocess.run(command, **defaults) starts git
GitSpawn(behaviour) ==
    /\ gx.at = "calling" /\ gx.todo # <<>>
    /\ gx' = [gx EXCEPT !.at = "waiting", !.proc = behaviour]
    /\ UNCHANGED <<storeVars, collectVars, partVars, px, hk, fx, mx, cx>>

\* the process exits and subprocess.run returns its CompletedProcess
GitExit ==
    /\ gx.at = "waiting" /\ gx.proc # "never"
    /\ gx' = [gx EXCEPT !.at = "calling", !.proc = "none",
                        !.todo = CallsAfter(gx.todo, gx.proc),
                        !.done = Append(@, <<Head(gx.todo), gx.proc>>)]
    /\ UNCHANGED <<storeVars, collectVars, partVars, px, hk, fx, mx, cx>>

\* no call is left: the invocation goes on to its return
GitReturn ==
    /\ gx.at = "calling" /\ gx.todo = <<>>
    /\ gx' = [gx EXCEPT !.at = "returned"]
    /\ UNCHANGED <<storeVars, collectVars, partVars, px, hk, fx, mx, cx>>

GitNext ==
    \/ \E behaviour \in {"exit0", "exit1", "never"} : GitSpawn(behaviour)
    \/ GitExit
    \/ GitReturn

\* every thread of the invocation keeps running, and a process that is going
\* to exit does exit
SpecGit == GitInit /\ [][GitNext]_vars /\ WF_vars(GitNext)

(***************************************************************************)
(* The worker pool of one invocation.  collector_tasks is built from the   *)
(* connectors of the configuration, each task is submitted with the        *)
(* invocation's start_time and now_ms, and a worker of the pool calls      *)
(* pull_since for it.                                                      *)
(***************************************************************************)
PoolInit ==
    /\ impl = "sqlite" /\ rows = <<>> /\ out = NoCall
    /\ CollectIdle
    /\ px = NoPull /\ hk = NoHook
    /\ fx = NotStarted /\ mx = NotStarted /\ cx = NotStarted /\ gx = NotStarted
    /\ ss = NotStarted /\ mf = NotStarted /\ dq = NotStarted
    /\ \E cfg \in [git : BOOLEAN, cli : CliModes, cursor : BOOLEAN, claude : BOOLEAN],
          start \in {Clock0 * 1000 - LookbackMs, (Clock0 - 2) * 1000} :
          dp = [at |-> "submit", cfg |-> cfg,
                window |-> <<start, Clock0 * 1000>>,
                todo |-> SelectSeq(<<"git", "cli", "cursor", "claude">>,
                                   LAMBDA s : Enabled(cfg, s)),
                state |-> [s \in SourceSet |-> "none"],
                calls |-> [s \in SourceSet |-> <<>>]]

\* executor.submit(self._collect_with_error_handling, name, collector,
\* start_time, now_ms) for the next task of collector_tasks
PoolSubmit ==
    /\ dp.at = "submit" /\ dp.todo # <<>>
    /\ dp' = [dp EXCEPT !.todo = Tail(@), !.state[Head(dp.todo)] = "queued"]
    /\ UNCHANGED <<storeVars, collectVars, px, hk, fx, mx, cx, gx, ss, mf, dq>>

\* a free worker takes a submitted task and calls pull_since(start_time, end_time)
PoolStart(s) ==
    /\ dp.at = "submit" /\ dp.state[s] = "queued"
    /\ Cardinality({t \in SourceSet : dp.state[t] = "running"}) < MaxWorkers
    /\ dp' = [dp EXCEPT !.state[s] = "running", !.calls[s] = Append(@, dp.window)]
    /\ UNCHANGED <<storeVars, collectVars, px, hk, fx, mx, cx, gx, ss, mf, dq>>

\* pull_since returns and the future completes
PoolFinish(s) ==
    /\ dp.at = "submit" /\ dp.state[s] = "running"
    /\ dp' = [dp EXCEPT !.state[s] = "done"]
    /\ UNCHANGED <<storeVars, collectVars, px, hk, fx, mx, cx, gx, ss, mf, dq>>

\* as_completed has yielded every future and the with block is left
PoolShutdown ==
    /\ dp.at = "submit" /\ dp.todo = <<>>
    /\ \A s \in SourceSet : dp.state[s] \in {"none", "done"}
    /\ dp' = [dp EXCEPT !.at = "done"]
    /\ UNCHANGED <<storeVars, collectVars, px, hk, fx, mx, cx, gx, ss, mf, dq>>

PoolNext ==
    \/ PoolSubmit
    \/ \E s \in SourceSet : PoolStart(s) \/ PoolFinish(s)
    \/ PoolShutdown

SpecPool == PoolInit /\ [][PoolNext]_vars

(***************************************************************************)
(* The Cursor collector of one manager and the two databases it reads: the *)
(* workspace database holds the composer list, the global database holds   *)
(* one bubble row for every composer.  Cursor adds and updates composers   *)
(* while the collector is alive.                                           *)
(***************************************************************************)
MaxUpdates == 2       \* composers that Cursor adds or updates in a run

ComposerCap == 10

OldTime == 50

RecentTime == 150

UpdateTime == 250

\* _load_composers_from_workspace: the composers with a composerId, in the
\* order of allComposers
_load_composers_from_workspace(store) ==
    SelectSeq(store, LAMBDA c : c.composerId # 0)

\* every composer of the map is relevant
every_composer(map, start_time_ms) == map

\* parse_conversation_file: created_at >= start_time_ms or updated_at >= start_time_ms
relevant_composers(map, start_time_ms) ==
    SelectSeq(map, LAMBDA c : c.createdAt >= start_time_ms
                               \/ c.lastUpdatedAt >= start_time_ms)

\* CursorConversationCollector.__init__: self._composers_cache = None
SessInit ==
    /\ impl = "sqlite" /\ rows = <<>> /\ out = NoCall
    /\ CollectIdle
    /\ px = NoPull /\ hk = NoHook
    /\ fx = NotStarted /\ mx = NotStarted /\ cx = NotStarted /\ gx = NotStarted
    /\ dp = NotStarted /\ mf = NotStarted /\ dq = NotStarted
    /\ \E n \in {0, 2, ComposerCap + 2}, recent \in BOOLEAN :
          ss = [at |-> "run",
                store |-> [i \in 1..n |->
                              [composerId |-> i, createdAt |-> OldTime,
                               lastUpdatedAt |-> IF recent = (i # 1) THEN RecentTime
                                                 ELSE OldTime]],
                cache |-> [loaded |-> FALSE, map |-> <<>>],
                updates |-> 0, calls |-> 0, since |-> 0,
                used |-> <<>>, queried |-> <<>>, messages |-> {}]

\* Cursor writes composer.composerData: composer i continues and its
\* lastUpdatedAt moves, or a new composer is appended to allComposers
ComposerWritten(i) ==
    /\ ss.at = "run" /\ ss.updates < MaxUpdates
    /\ i \in 1..(Len(ss.store) + 1)
    /\ i <= Len(ss.store) => ss.store[i].lastUpdatedAt < UpdateTime
    /\ ss' = [ss EXCEPT !.updates = @ + 1,
                        !.store = IF i <= Len(@)
                                  THEN [@ EXCEPT ![i].lastUpdatedAt = UpdateTime]
                                  ELSE Append(@, [composerId |-> i,
                                                  createdAt |-> UpdateTime,
                                                  lastUpdatedAt |-> UpdateTime])]
    /\ UNCHANGED <<storeVars, collectVars, px, hk, fx, mx, cx, gx, dp, mf, dq>>

\* parse_conversation_file on the global database: the map is loaded when
\* it is None or empty, the relevant composers are filtered from it, and
\* the bubbles of the first ten are selected by their key
SessParse(start_time_ms) ==
    /\ ss.at = "run" /\ ss.calls < MaxCalls
    /\ LET map == IF ~ss.cache.loaded \/ ss.cache.map = <<>>
                  THEN _load_composers_from_workspace(ss.store)
                  ELSE ss.cache.map
           relevant == relevant_composers(map, start_time_ms)
           first == SubSeq(relevant, 1, IF Len(relevant) < ComposerCap
                                        THEN Len(relevant) ELSE ComposerCap)
       IN  ss' = [ss EXCEPT
                     !.calls = @ + 1, !.since = start_time_ms,
                     !.cache = [loaded |-> ss.cache.loaded \/ Len(ss.store) > 0,
                                map |-> map],
                     !.used = map,
                     !.queried = [k \in 1..Len(first) |-> first[k].composerId],
                     !.messages =
                         {[composer_id |-> first[k].composerId,
                           key |-> <<"bubbleId", ss.store[j].composerId, 1>>] :
                             <<k, j>> \in {kj \in (1..Len(first)) \X (1..Len(ss.store)) :
                                 ss.store[kj[2]].composerId = first[kj[1]].composerId}}]
    /\ UNCHANGED <<storeVars, collectVars, px, hk, fx, mx, cx, gx, dp, mf, dq>>

\* a new CollectorManager: a new collector, whose map is None
SessNewManager ==
    /\ ss.at = "run" /\ ss.cache.loaded
    /\ ss' = [ss EXCEPT !.cache = [loaded |-> FALSE, map |-> <<>>]]
    /\ UNCHANGED <<storeVars, collectVars, px, hk, fx, mx, cx, gx, dp, mf, dq>>

SessNext ==
    \/ \E i \in {1, Len(ss.store) + 1} : ComposerWritten(i)
    \/ \E start \in {RecentTime - 50, UpdateTime - 50} : SessParse(start)
    \/ SessNewManager

SpecSess == SessInit /\ [][SessNext]_vars

(***************************************************************************)
(* The commit-msg hook on one message file.  The file is a sequence of     *)
(* pieces: the text the user typed, line ends, the header                  *)
(* "AI-Context (sayu)", and the block from ---思惟--- to ---FIN--- that     *)
(* LLMSummaryGenerator returns ("summary").                                *)
(***************************************************************************)
MaxRuns == 3          \* runs of the hook on the file

RECURSIVE rstrip(_)
\* str.rstrip()
rstrip(text) ==
    IF text # <<>> /\ text[Len(text)] = "\n" THEN rstrip(SubSeq(text, 1, Len(text) - 1))
    ELSE text

\* the file git wrote, and the user configuration
MsgInit ==
    /\ impl = "sqlite" /\ rows = <<>> /\ out = NoCall
    /\ CollectIdle
    /\ px = NoPull /\ hk = NoHook
    /\ fx = NotStarted /\ mx = NotStarted /\ cx = NotStarted /\ gx = NotStarted
    /\ dp = NotStarted /\ ss = NotStarted /\ dq = NotStarted
    /\ \E file \in {<<"fix">>, <<"fix", "\n">>, <<"fix", "\n", "\n", "body", "\n">>,
                    <<"fix", "\n", "\n", "AI-Context (sayu)", "\n">>},
          enabled \in BOOLEAN, commitTrailer \in BOOLEAN :
          mf = [at |-> "run", file |-> file, enabled |-> enabled,
                commitTrailer |-> commitTrailer, runs |-> 0, did |-> "none"]

\* HookHandlers.handle_commit_msg(msg_file), with a repository root found:
\* staged tells whether files are staged, gen what the summary generation
\* does, "summary" for a returned text and "raised" for an exception
handle_commit_msg(staged, gen) ==
    /\ mf.at = "run" /\ mf.runs < MaxRuns
    /\ LET original_msg == mf.file
           did == IF ~mf.enabled THEN "disabled"
                  ELSE IF \E k \in DOMAIN original_msg : original_msg[k] = "AI-Context (sayu)"
                       THEN "has context"
                  ELSE IF ~staged THEN "nothing staged"
                  ELSE IF gen = "raised" THEN "failed"
                  ELSE IF ~mf.commitTrailer THEN "no trailer"
                  ELSE "appended"
       IN  mf' = [mf EXCEPT !.runs = @ + 1, !.did = did,
                            !.file = IF did = "appended"
                                     THEN rstrip(original_msg) \o <<"\n", "\n", "summary", "\n">>
                                     ELSE @]
    /\ UNCHANGED <<storeVars, collectVars, px, hk, fx, mx, cx, gx, dp, ss, dq>>

SpecMsg ==
    MsgInit /\ [][\E staged \in BOOLEAN, gen \in {"summary", "raised"} :
                     handle_commit_msg(staged, gen)]_vars

(***************************************************************************)
(* The daemon: the collector and watcher threads put events on             *)
(* event_queue, the processor thread takes them into its batch and stores  *)
(* the batch, and stop() clears the running flag.  Events are numbered in  *)
(* the order they are put.  age is now - last_flush in seconds.            *)
(***************************************************************************)
MaxEvents == 11       \* events put on the queue in a run

BatchLimit == 10

FlushAfter == 5

\* SayuDaemon.start: self.running = True, the threads started; batch = []
DaemonInit ==
    /\ impl = "sqlite" /\ rows = <<>> /\ out = NoCall
    /\ CollectIdle
    /\ px = NoPull /\ hk = NoHook
    /\ fx = NotStarted /\ mx = NotStarted /\ cx = NotStarted /\ gx = NotStarted
    /\ dp = NotStarted /\ ss = NotStarted /\ mf = NotStarted
    /\ dq = [at |-> "loop", running |-> TRUE, put |-> 0, event_queue |-> <<>>,
             batch |-> <<>>, age |-> 0, inserted |-> <<>>, logged |-> {}]

\* self.event_queue.put(event) by a collector or the watcher
queue_put ==
    /\ dq.at = "loop" /\ dq.running /\ dq.put < MaxEvents
    /\ dq' = [dq EXCEPT !.put = @ + 1, !.event_queue = Append(@, dq.put + 1)]
    /\ UNCHANGED <<storeVars, collectVars, px, hk, fx, mx, cx, gx, dp, ss, mf>>

\* _process_loop: the test of `while self.running` and one turn of the
\* loop: get with a timeout of one second, the flush test, store.insert
\* for every event of the batch; waited tells whether a second passed and
\* fault whether the inserts raise
_process_loop(waited, fault) ==
    /\ dq.at = "loop"
    /\ dq.event_queue = <<>> => waited
    /\ IF ~dq.running
       THEN dq' = [dq EXCEPT !.at = "exited", !.batch = <<>>]
       ELSE LET batch == IF dq.event_queue # <<>> THEN Append(dq.batch, Head(dq.event_queue))
                         ELSE dq.batch
                age == IF waited /\ dq.age <= FlushAfter THEN dq.age + 1 ELSE dq.age
                should_flush == \/ Len(batch) >= BatchLimit
                                \/ Len(batch) > 0 /\ age > FlushAfter
            IN  /\ fault => should_flush
                /\ dq' = [dq EXCEPT
                            !.event_queue = IF @ # <<>> THEN Tail(@) ELSE @,
                            !.batch = IF should_flush THEN <<>> ELSE batch,
                            !.age = IF should_flush THEN 0 ELSE age,
                            !.inserted = IF should_flush /\ ~fault THEN @ \o batch ELSE @,
                            !.logged = IF should_flush /\ fault THEN @ \cup Range(batch) ELSE @]
    /\ UNCHANGED <<storeVars, collectVars, px, hk, fx, mx, cx, gx, dp, ss, mf>>

\* stop(): self.running = False
stop ==
    /\ dq.at = "loop" /\ dq.running
    /\ dq' = [dq EXCEPT !.running = FALSE]
    /\ UNCHANGED <<storeVars, collectVars, px, hk, fx, mx, cx, gx, dp, ss, mf>>

\* every thread runs on: the processor takes its turns
SpecDaemon ==
    /\ DaemonInit
    /\ [][queue_put \/ stop \/ \E waited \in BOOLEAN, fault \in BOOLEAN :
                                   _process_loop(waited, fault)]_vars
    /\ WF_vars(\E waited \in BOOLEAN, fault \in BOOLEAN : _process_loop(waited, fault))

(***************************************************************************)
(* The store client: any sequence of insert and insert_batch calls on a    *)
(* store of either class.  The queries read the table and change nothing:  *)
(* they are the operators above, applied to rows.                          *)
(***************************************************************************)
QueryTimes == 0..(MaxTs + 1)

\* what the client keeps of a call: its name, whether it raised, the number
\* of events passed, the number of INSERTs executed before the exception,
\* and the events passed when it returned normally
CallRecord(op, rs, batch, fault, raised) ==
    [op |-> op, raised |-> raised, n |-> Len(batch),
     done |-> IF raised THEN Len(InsertRows(rs, batch, fault)) - Len(rs) ELSE Len(batch),
     batch |-> IF raised THEN <<>> ELSE batch]

StoreInit ==
    /\ impl \in {"sqlite", "memory"}
    /\ rows = <<>>
    /\ out = NoCall
    /\ CollectIdle
    /\ px = NoPull
    /\ hk = NoHook
    /\ AuxIdle

Insert(e, fault) ==
    /\ Len(rows) < MaxRows
    /\ impl = "memory" => fault = 0
    /\ LET r == IF impl = "sqlite" THEN insert(rows, e, fault) ELSE mem_insert(rows, e)
       IN  /\ rows' = r.rows
           /\ out' = CallRecord("insert", rows, <<e>>, IF impl = "sqlite" THEN fault ELSE 0, r.raised)
    /\ UNCHANGED impl
    /\ UNCHANGED collectVars
    /\ UNCHANGED boundaryVars

InsertBatch(batch, fault) ==
    /\ Len(rows) + Len(batch) <= MaxRows
    /\ impl = "memory" => fault = 0
    /\ LET r == IF impl = "sqlite" THEN insert_batch(rows, batch, fault)
                ELSE mem_insert_batch(rows, batch)
       IN  /\ rows' = r.rows
           /\ out' = CallRecord("insert_batch", rows, batch, IF impl = "sqlite" THEN fault ELSE 0, r.raised)
    /\ UNCHANGED impl
    /\ UNCHANGED collectVars
    /\ UNCHANGED boundaryVars

StoreNext ==
    \/ \E e \in ClientEvents, fault \in 0..1 : Insert(e, fault)
    \/ \E batch \in ClientBatches : \E fault \in 0..Len(batch) : InsertBatch(batch, fault)

SpecStore == StoreInit /\ [][StoreNext]_vars

\* the store's query of the given name, for the store class in use
Query(op, arg, s, e) ==
    IF impl = "sqlite"
    THEN CASE op = "find_by_time_range" -> find_by_time_range(rows, s, e)
           [] op = "find_by_repo" -> find_by_repo(rows, arg, s, e)
           [] op = "find_by_file" -> find_by_file(rows, arg, s, e)
    ELSE CASE op = "find_by_time_range" -> mem_find_by_time_range(rows, s, e)
           [] op = "find_by_repo" -> mem_find_by_repo(rows, arg, s, e)

(***************************************************************************)
(* Properties of the event store.                                          *)
(***************************************************************************)
Count(seq, v) == Cardinality({ i \in DOMAIN seq : seq[i] = v })

QueryOps == IF impl = "sqlite"
            THEN {"find_by_time_range", "find_by_repo", "find_by_file"}
            ELSE {"find_by_time_range", "find_by_repo"}

QueryArgs(op) == CASE op = "find_by_time_range" -> {"-"}
                   [] op = "find_by_repo" -> Repos
                   [] op = "find_by_file" -> {"f1"}

\* what the row must satisfy besides the time range, for the query op(arg, ...)
Selects(op, arg, v) == CASE op = "find_by_time_range" -> TRUE
                         [] op = "find_by_repo" -> v.repo = arg
                         [] op = "find_by_file" -> v.file = arg

\* C1: after any sequence of insert and insert_batch calls, every range
\* query returns each stored row that lies in [start, end] (both bounds
\* included) and that has the asked repo or file exactly once, and returns
\* nothing else.
C1_RangeQueryExact ==
    \A op \in QueryOps : \A arg \in QueryArgs(op) :
      \A s \in QueryTimes, e \in QueryTimes :
        LET res == Query(op, arg, s, e)
        IN  \A v \in Range(rows) \cup Range(res) :
              Count(res, v) = IF s <= v.ts /\ v.ts <= e /\ Selects(op, arg, v)
                              THEN Count(rows, v) ELSE 0

\* a store filled by insert_batch where a query on the bounds of the range
\* returns some rows and leaves others out, by time and by repo
C1_Witness ==
    /\ out.op = "insert_batch" /\ ~out.raised
    /\ Len(rows) = 3
    /\ \E s \in QueryTimes :
         /\ Len(Query("find_by_time_range", "-", s, s)) = 2
         /\ \E r \in Repos : Len(Query("find_by_repo", r, s, s)) = 1

Ascending(res) == \A i \in 1..(Len(res) - 1) : res[i].ts <= res[i + 1].ts

\* C2: every range query returns its events ordered by ts ascending.
C2_QueryAscending ==
    \A op \in QueryOps : \A arg \in QueryArgs(op) :
      \A s \in QueryTimes, e \in QueryTimes :
        Ascending(Query(op, arg, s, e))

\* some row of the batch has the id of a stored row or of an earlier row of the batch
DuplicateId(rs, batch) ==
    \/ \E i \in DOMAIN batch : batch[i].id \in Ids(rs)
    \/ \E i \in DOMAIN batch, j \in DOMAIN batch : i < j /\ batch[i].id = batch[j].id

\* C6: insert_batch is atomic: a call that returns normally has stored the
\* whole batch after the rows that were there (and the batch brought no
\* duplicate id), and a call that raises leaves the rows as they were.
C6_BatchAtomic ==
    [][ out'.op = "insert_batch" =>
          /\ out'.raised => rows' = rows
          /\ ~out'.raised => /\ rows' = rows \o out'.batch
                             /\ impl = "sqlite" => ~DuplicateId(rows, out'.batch) ]_vars

\* a batch of two whose second INSERT failed after its first was executed,
\* on a store that already held a row
C6_Witness ==
    /\ out.op = "insert_batch" /\ out.raised
    /\ out.n = 2
    /\ out.done = 1
    /\ Len(rows) = 1

(***************************************************************************)
(* Properties of collect_since_last_commit (checked under Spec).           *)
(***************************************************************************)
InWindow(v) == v.repo = repo_root /\ start_time <= v.ts /\ v.ts <= now_ms

\* C3: the value collect_since_last_commit returns is exactly what the
\* store holds for repo_root over [start_time, now_ms] after the persist
\* step: every stored event of the repo in the window is returned, as often
\* as it is stored, whoever stored it, and no event that is only in the
\* in-memory merge (another repo, a ts outside the window) is returned.
C3_ReturnIsStoreContent ==
    [][ (pc = "query" /\ pc' = "returned") =>
           \A v \in Range(rows) \cup Range(ret') \cup Range(all_events) :
               Count(ret', v) = IF InWindow(v) THEN Count(rows, v) ELSE 0 ]_vars

\* the second invocation has returned an event the hook stored and an event
\* the first invocation stored, and has left out a merged event of another
\* repo and a merged event older than the window
C3_Witness ==
    /\ pc = "returned"
    /\ inv = 2
    /\ \E v \in Range(ret) : v.id[1] = 0
    /\ \E v \in Range(ret) : v.id[1] = 1
    /\ \E v \in Range(all_events) : v.repo # repo_root /\ v \in Range(rows) /\ v \notin Range(ret)
    /\ \E v \in Range(all_events) : v.ts < start_time /\ v \in Range(rows) /\ v \notin Range(ret)

\* the source record an event was built from: everything but the id
Record(e) == <<e.ts, e.source, e.kind, e.repo, e.file, e.text>>

Records(seq) == {Record(seq[i]) : i \in 1..Len(seq)}

\* the invocation that has returned had the window and the sources of the
\* one before it, and no failure was injected in either
SameCollection ==
    /\ pc = "returned"
    /\ prev.valid
    /\ prev.start = start_time
    /\ prev.now = now_ms
    /\ prev.commits = commits
    /\ prev.raisedSrc = {}
    /\ raisedSrc = {}

\* C4: re-collection is idempotent: a second invocation with unchanged
\* sources and an unchanged window returns the events the first returned,
\* and the store then holds no two rows for one source record.
C4_Idempotent ==
    SameCollection =>
        /\ Records(ret) = Records(prev.ret)
        /\ Len(ret) = Len(prev.ret)
        /\ \A i, j \in 1..Len(rows) : Record(rows[i]) = Record(rows[j]) => i = j

\* the merge of the finished sources' lists in the order of submission
CanonicalMerge ==
    LET part(s) == IF task[s] = "done" /\ s \notin raisedSrc
                   THEN pull_since(s, commits, start_time, now_ms, inv)
                   ELSE <<>>
    IN  part("git") \o part("cli") \o part("cursor") \o part("claude")

\* C5: for fixed per-source lists the returned sequence is the same for
\* every order in which the source tasks complete, ties in ts included: it
\* is the sequence returned when the lists are merged in submission order.
C5_OrderIndependent ==
    [][ (pc = "query" /\ pc' = "returned") =>
           ret' = find_by_repo(SubSeq(rows, 1, Len(rows) - Len(all_events)) \o CanonicalMerge,
                               repo_root, start_time, now_ms) ]_vars

\* C7: a source whose pull_since raised contributes no event, the events of
\* every other finished source are in the merge, the merge is persisted,
\* and collect_since_last_commit is not left by an exception because of it.
C7_FailureIsolated ==
    /\ \A s \in raisedSrc : \A v \in Range(all_events) : v.id[2] # s
    /\ pc \in {"collect", "query"} =>
          \A s \in SourceSet : task[s] = "done" /\ s \notin raisedSrc =>
              \A v \in Range(pull_since(s, commits, start_time, now_ms, inv)) :
                  Count(all_events, v) = 1
    /\ pc \in {"query", "returned"} => \A v \in Range(all_events) : v \in Range(rows)
    /\ pc = "raised" => err = "storage"

\* git's pull_since raised, the other sources' events were merged and
\* persisted, and the invocation goes on to its query
C7_Witness ==
    /\ pc = "query"
    /\ raisedSrc = {"git"}
    /\ commits # <<>>
    /\ \E v \in Range(all_events) : v.id[2] = "cli"
    /\ \E v \in Range(all_events) : v.id[2] = "claude"
    /\ \A v \in Range(all_events) : v \in Range(rows)

\* C9: when the batch insert fails the manager does not raise: it goes on
\* to the query and returns what the store held before.
C9_StorageFailureReturns == err = "storage" => pc \in {"query", "returned"}

(***************************************************************************)
(* Properties of the error boundaries (checked under SpecPull, SpecHook).  *)
(***************************************************************************)
\* C8: no pull_since call of any extractor is left by an exception,
\* whatever fails inside it.
C8_PullNeverRaises == px.at # "raised"

\* C10: the hook entry point exits with status 0 whatever fails inside it,
\* and the generated script exits with status 0.
C10_HookFailsOpen ==
    /\ hk.at = "exited" => hk.status = 0
    /\ hk.at = "done" => hk.script = 0 /\ (hk.launcher => hk.status = 0)

\* git was missing, the exception reached the except clause of hook, and
\* the script has finished
C10_Witness ==
    /\ hk.at = "done"
    /\ hk.caught = "hook"
    /\ hk.status = 0
    /\ hk.script = 0


\* the text the record hands to its extractor: the row's text, or the texts
\* of the message's text parts
GivenText(rec) ==
    IF rec.who = "cursor" THEN rec.text
    ELSE [k \in 1..Len(SelectSeq(rec.content, LAMBDA it : it.type = "text")) |->
            SelectSeq(rec.content, LAMBDA it : it.type = "text")[k].text]

ToolCallMarkers == {"tool_use_id", "function_calls", "<invoke>", "tool_result"}

HasMarker(text) == \E k \in DOMAIN text : Lower(text[k]) \in ToolCallMarkers

\* C11: a conversation extractor produces no Event from a message whose text
\* (flat, or assembled from its content parts) contains a tool-call marker
\* in any letter case
C11_NoEventFromToolText ==
    (mx.at = "done" /\ mx.rec.who \in {"claude", "cursor"} /\ HasMarker(GivenText(mx.rec)))
        => mx.res.kind # "event"


\* C12: every Event an extractor emits carries a repo that is an existing
\* version-control root; no extractor and no manager puts a placeholder such
\* as the process working directory in its place
C12_RepoIsVcsRoot ==
    (mx.at = "done" /\ mx.res.kind = "event") => mx.res.repo \in {"r1", "r2"}


\* C17: a Cursor row of type 1 with a non-empty text, a createdAt in seconds
\* and no other time field, inside the window, yields one Event with
\* actor user and ts = createdAt * 1000
C17_CursorUserRowEmitted ==
    (/\ mx.at = "done" /\ mx.rec.who = "cursor"
     /\ mx.rec.type = 1 /\ mx.rec.text # <<>>
     /\ mx.rec.createdAt = SecondsSample /\ mx.rec.tokenCountUpUntilHere = 0)
        => (/\ mx.res.kind = "event"
            /\ mx.res.actor = "user"
            /\ mx.res.ts = SecondsSample * 1000)

\* C18: a transcript line with a timestamp in the window, a message of role
\* user whose content list holds a text part, and a cwd inside repository R
\* yields one Event with actor user, repo R, the transcript tool as source
\* and the concatenated text parts as text
C18_TranscriptUserLineEmitted ==
    (/\ mx.at = "done" /\ mx.rec.who = "claude"
     /\ mx.rec.timestamp = "inside" /\ mx.rec.role = "user"
     /\ GivenText(mx.rec) # <<>>
     /\ show_toplevel(mx.rec.cwd) # "none")
        => (/\ mx.res.kind = "event"
            /\ mx.res.actor = "user"
            /\ mx.res.repo = show_toplevel(mx.rec.cwd)
            /\ mx.res.source = "LLM"
            /\ mx.res.text = GivenText(mx.rec))


SetsInFlight == {p \in Procs : cx.procs[p].pc = "writing"}

\* C14: under every interleaving of get and set on one key, a get returns
\* none or a value some set wrote in full, and once the last set has
\* completed the key holds that set's value until it expires
C14_LastWriterWins ==
    cx.at = "run" =>
        /\ \A p \in Procs :
              Truthy(cx.procs[p].ret) => cx.procs[p].ret.v \in CacheValues \cup {22}
        /\ (/\ SetsInFlight = {}
            /\ cx.last.valid
            /\ cx.now - cx.last.timestamp <= CacheTtl)
              => (/\ cx.linked
                  /\ cx.content = FullFile(cx.last.timestamp, cx.last.value))


\* C13: a malformed unit of a source is skipped alone: every well-formed
\* line or row of the same file still yields its message
C13_OnlyMalformedUnitSkipped ==
    fx.at = "done" => fx.msgs = {i \in DOMAIN fx.units : fx.units[i] = "ok"}


CacheLive == cache.present /\ clk - cache.timestamp <= CacheTtl /\ cache.value # 0

HeadTime == commits[Len(commits)].at * 1000

CommitTimes(repo) ==
    {rows[i].ts : i \in {j \in DOMAIN rows :
        rows[j].repo = repo /\ rows[j].source = "git" /\ rows[j].kind = "commit"}}

LastCommitTime(repo) ==
    IF impl = "sqlite" THEN get_last_commit_time(rows, repo)
    ELSE mem_get_last_commit_time(rows, repo)

\* C16: get_last_commit_time(repo) is the maximum ts over the stored events
\* of that repo with source git and kind commit, whatever the order of their
\* insertion, and none when there is no such event; find_last_commit returns
\* an event with that ts
C16_LastCommitIsMax ==
    \A repo \in Repos :
        /\ CommitTimes(repo) = {} => ~LastCommitTime(repo).some
        /\ CommitTimes(repo) # {} =>
              /\ LastCommitTime(repo).some
              /\ \A t \in CommitTimes(repo) : t <= LastCommitTime(repo).v
              /\ impl = "sqlite" =>
                    find_last_commit(rows, repo)[1].ts = LastCommitTime(repo).v


PhaseSteps ==
    {<<p, "dispatch">> : p \in IdlePcs}
        \cup {<<"dispatch", "collect">>, <<"collect", "query">>, <<"collect", "raised">>,
              <<"query", "returned">>}

Stored(e, rs) == \E j \in DOMAIN rs : rs[j].id = e.id

\* C19: the phases of one invocation follow in the order Anchor, Dispatch,
\* Merge/Persist, Query: the window is fixed before any task is submitted,
\* insert_batch does not start before every dispatched task has finished,
\* and the query is issued only after the persist step completed or was
\* skipped for want of events; then the invocation ends
C19_PhaseOrder ==
    [][/\ pc' # pc => <<pc, pc'>> \in PhaseSteps
       /\ (\E s \in SourceSet : task[s] # "running" /\ task'[s] = "running")
             => pc = "dispatch"
       /\ pc \notin IdlePcs => (start_time' = start_time /\ now_ms' = now_ms)
       /\ (pc \notin IdlePcs /\ rows' # rows)
             => (pc = "collect" /\ \A s \in SourceSet : task[s] # "running")
       /\ pc' = "query"
             => (/\ \A s \in SourceSet : task[s] # "running"
                 /\ IF all_events = <<>> THEN rows' = rows
                    ELSE \A k \in DOMAIN all_events : Stored(all_events[k], rows'))
       /\ ret' # ret => (pc = "query" /\ pc' = "returned")]_vars

\* an invocation whose three tasks were merged and persisted has returned
C19_Witness ==
    /\ pc = "returned"
    /\ Cardinality({s \in SourceSet : task[s] = "done"}) >= 3
    /\ all_events # <<>>
    /\ \A k \in DOMAIN all_events : Stored(all_events[k], rows)
    /\ ret # <<>>


\* C20: every invocation eventually returns, whatever its git subprocesses
\* do: one that never exits is cut off by a timeout and its call yields an
\* empty result
C20_CollectReturns == <>(gx.at = "returned")


\* the source is enabled in the connectors of the configuration
Configured(cfg, s) ==
    CASE s = "git" -> cfg.git
      [] s = "cli" -> cfg.cli # "off"
      [] s = "cursor" -> cfg.cursor
      [] s = "claude" -> cfg.claude

\* C21: in one invocation pull_since is called exactly once for every source
\* that the configuration enables and never for a disabled one, every call
\* gets the same (windowStart, now) pair, and at most 4 calls run at a time
C21_OneCallPerEnabledSource ==
    dp.at # "none" =>
        /\ Cardinality({s \in SourceSet : dp.state[s] = "running"}) <= 4
        /\ \A s \in SourceSet :
              /\ Len(dp.calls[s]) <= (IF Configured(dp.cfg, s) THEN 1 ELSE 0)
              /\ \A k \in DOMAIN dp.calls[s] : dp.calls[s][k] = dp.window
              /\ (dp.at = "done" /\ Configured(dp.cfg, s)) => Len(dp.calls[s]) = 1


\* the step is the return of a get of process p
GetReturns(p) ==
    \/ GetExists(p) /\ ~cx.linked
    \/ GetRead(p) /\ cx'.procs[p].pc = "idle"
    \/ GetCheck(p, CacheTtl)

C23_MapRebuiltEveryCall ==
    [][\A start \in {RecentTime - 50, UpdateTime - 50} :
          SessParse(start) =>
              ss'.cache.map = _load_composers_from_workspace(ss.store)]_vars

\* the sessions of the map the last call used that pass its window filter
Passing ==
    SelectSeq(ss.used, LAMBDA c : c.createdAt >= ss.since \/ c.lastUpdatedAt >= ss.since)

PassingIds == {Passing[k].composerId : k \in 1..Len(Passing)}

QueriedIds == {ss.queried[k] : k \in 1..Len(ss.queried)}

\* C25: rows are fetched only for sessions with createdAt >= sinceMs or
\* lastUpdatedAt >= sinceMs, for at most the first 10 of them in a call; a
\* session failing the filter contributes no message and every returned
\* row belongs to a selected session
C25_OnlyFirstTenRelevant ==
    (ss.at = "run" /\ ss.calls > 0) =>
        /\ Len(ss.queried) <= 10 /\ Len(ss.queried) <= Len(Passing)
        /\ \A k \in 1..Len(ss.queried) : ss.queried[k] = Passing[k].composerId
        /\ \A m \in ss.messages : m.key[2] \in QueriedIds /\ m.key[2] = m.composer_id

\* a call found more than ten passing sessions and one failing, and
\* returned the rows of ten
C25_Witness ==
    /\ ss.at = "run" /\ ss.calls > 0
    /\ Cardinality(PassingIds) > 10 /\ Len(ss.queried) = 10
    /\ Cardinality(ss.messages) = 10
    /\ \E j \in 1..Len(ss.used) : ss.used[j].composerId \notin PassingIds


\* the first of the three time fields of the row that is not zero
FirstNonZero(row) ==
    IF row.tokenCountUpUntilHere # 0 THEN row.tokenCountUpUntilHere
    ELSE IF row.createdAt # 0 THEN row.createdAt
    ELSE row.lastUpdatedAt

MessageRole ==
    IF mx.rec.who = "claude" THEN mx.rec.role ELSE mx.msg.role

\* C26: only a message whose role is user or assistant becomes an Event, and
\* the Event's actor is that role; a message of role system, tool or any
\* other value yields no Event in any conversation extractor
C26_OnlyUserAndAssistantRoles ==
    (mx.at = "done" /\ mx.rec.who \in {"claude", "cursor"} /\ mx.res.kind = "event")
        => (MessageRole \in {"user", "assistant"} /\ mx.res.actor = MessageRole)


\* directory d is the directory root or lies below it
RootOrBelow(d, root) ==
    \/ Chars(d) = Chars(root)
    \/ /\ Len(Chars(d)) > Len(Chars(root))
       /\ SubSeq(Chars(d), 1, Len(Chars(root)) + 1) = Chars(root) \o <<"/">>

\* C28: CliCollector.pull_since emits an event for a log entry only if the
\* entry's cwd is the repository root or a directory below it and its ts is
\* in [since, until]; the event's repo is the collector's root
C28_OnlyCommandsOfTheRepo ==
    (mx.at = "done" /\ mx.rec.who = "cli" /\ mx.res.kind = "event")
        => /\ RootOrBelow(mx.rec.cwd, mx.res.repo)
           /\ ConvSince <= mx.rec.ts /\ mx.rec.ts <= ConvUntil
           /\ mx.res.repo = manager_repo_root(mx.rec.arg, mx.rec.outcome).root


\* the summaries appended to the message file
Summaries == {k \in DOMAIN mf.file : mf.file[k] = "summary"}

\* C29: handle_commit_msg is idempotent on the commit message file: when
\* the message already carries a context summary appended by an earlier
\* run, a further run leaves the file unchanged, so the message never holds
\* two appended summaries
C29_SummaryAppendedOnce ==
    [][\A staged \in BOOLEAN, gen \in {"summary", "raised"} :
          (handle_commit_msg(staged, gen) /\ Summaries # {})
              => (mf'.file = mf.file /\ Cardinality(Summaries) = 1)]_vars


\* C30: every event placed on the daemon's queue is eventually passed to
\* store.insert exactly once, or has its insert failure logged; the events
\* still in the queue or in the unflushed batch when stop() clears the
\* running flag are stored as well
C30_EveryQueuedEventStored ==
    dq.at = "exited" =>
        \A e \in 1..dq.put :
            \/ e \in dq.logged
            \/ Cardinality({k \in DOMAIN dq.inserted : dq.inserted[k] = e}) = 1
====
